---- MODULE Spec2Model ----
(***************************************************************************)
(* A model of matlabdomain/sphinxcontrib/documenters.py: the token cursor  *)
(* helpers (MatMixin), the class-header parser (MatClass.__init__), the    *)
(* resolver dispatch (MatObject.matlabify / parse_mfile, MatFunction) and  *)
(* the documenter's import_object.                                         *)
(*                                                                         *)
(* Token indices are 0-based as in the Python source; the TLA+ sequence    *)
(* `tokens` is 1-based, so token idx is tokens[idx + 1].  Reading          *)
(* self.tokens[idx] with idx >= len(self.tokens) raises IndexError in      *)
(* Python; the scanners return Raised (-1) in that case and every action   *)
(* that reads a token tests the index first and fails with "IndexError".   *)
(***************************************************************************)
EXTENDS Integers, Sequences, FiniteSets, TLC

VARIABLES
  src,          \* description of how the input stream was written (never read by the program)
  entry,        \* which entry point is called: "MatClass" or "import_object"
  fs,           \* what the filesystem holds for the requested full path
  parentfs,     \* outcome of resolving the parent path (line 474)
  name,         \* requested object name
  path,         \* folder path handed to the constructors
  tokens,       \* the token stream (list of (kind, text) pairs)
  ipc,          \* position inside import_object / matlabify / parse_mfile
  object,       \* self.object of the documenter
  ret,          \* return value of import_object
  warned,       \* self.directive.warn was called
  reread,       \* self.env.note_reread was called
  pc,           \* position inside MatClass.__init__
  idx,          \* token index of the parser
  attrs,        \* self.attrs
  bases,        \* self.bases
  docstring,    \* self.docstring
  properties,   \* self.properties
  methods,      \* self.methods
  cls_attr,     \* the attribute name read last (local of __init__)
  err,          \* kind of the exception raised, "" when none
  errtok,       \* token text named by the exception message
  run,          \* 1 for the first construction, 2 for a repeated one
  first         \* outcome of the first construction, once it is repeated

vars == <<src, entry, fs, parentfs, name, path, tokens, ipc, object, ret, warned,
          reread, pc, idx, attrs, bases, docstring, properties, methods,
          cls_attr, err, errtok, run, first>>

inputVars == <<src, entry, fs, parentfs, name, path, tokens>>
hostVars == <<ipc, object, ret, warned, reread>>
selfVars == <<attrs, bases, docstring, properties, methods>>

(***************************************************************************)
(* Bounds of the model.                                                    *)
(***************************************************************************)
MaxBlanks == 2      \* widest run of blank tokens written between header items
MaxDocLines == 3    \* most comment lines written after a header

(***************************************************************************)
(* Tokens.                                                                 *)
(***************************************************************************)
TkClassdef == <<"Keyword", "classdef">>
TkFunction == <<"Keyword", "function">>
TkBlank == <<"Text", " ">>
TkNewline == <<"Text", "\n">>
TkLParen == <<"Punctuation", "(">>
TkRParen == <<"Punctuation", ")">>
TkComma == <<"Punctuation", ",">>
TkEquals == <<"Punctuation", "=">>
TkLBrace == <<"Punctuation", "{">>
TkRBrace == <<"Punctuation", "}">>
TkLess == <<"Operator", "<">>
TkAmp == <<"Operator", "&">>
TkName(s) == <<"Name", s>>

\* MatClass.cls_attr_types: the recognized class attributes and their value shape
cls_attr_types ==
  [Abstract |-> "bool", AllowedSubclasses |-> "list", ConstructOnLoad |-> "bool",
   HandleCompatible |-> "bool", Hidden |-> "bool", InferiorClasses |-> "list",
   Sealed |-> "bool"]

\* attribute values: Python stores either a list or the text 'true' / 'false'
ListVal(l) == [str |-> "", list |-> l]
StrVal(s) == [str |-> s, list |-> <<>>]

\* a Python dict with string keys
EmptyDict == [k \in {} |-> ListVal(<<>>)]
DictSet(d, k, v) == [x \in (DOMAIN d) \cup {k} |-> IF x = k THEN v ELSE d[x]]

(***************************************************************************)
(* MatMixin: the cursor helpers.                                           *)
(***************************************************************************)
Raised == -1

Tok(toks, i) == toks[i + 1]

_eotk(toks, i) == i >= Len(toks)

_tk_eq(toks, i, token) ==
  Tok(toks, i)[1] = token[1] /\ Tok(toks, i)[2] = token[2]

_tk_ne(toks, i, token) ==
  Tok(toks, i)[1] # token[1] \/ Tok(toks, i)[2] # token[2]

\* the index at which a `while <test>(tokens[idx]): idx += 1` loop stops;
\* Len(toks) when the loop runs off the end of the list
RECURSIVE ScanEnd(_, _, _)
ScanEnd(toks, i, texts) ==
  IF i >= Len(toks) THEN Len(toks)
  ELSE IF Tok(toks, i)[1] = "Text" /\ Tok(toks, i)[2] \in texts
       THEN ScanEnd(toks, i + 1, texts)
       ELSE i

ScanCount(toks, i, texts) ==
  IF ScanEnd(toks, i, texts) >= Len(toks) THEN Raised
  ELSE ScanEnd(toks, i, texts) - i

\* a variant of _blanks that tests for a blank once instead of looping
BlanksTestedOnce(toks, i) ==
  IF i >= Len(toks) THEN Raised
  ELSE IF Tok(toks, i) = TkBlank THEN 1 ELSE 0

_blanks(toks, i) == ScanCount(toks, i, {" "})

_whitespace(toks, i) == ScanCount(toks, i, {" ", "\n", "\t"})

_indent(toks, i) == ScanCount(toks, i, {" ", "\t"})

(***************************************************************************)
(* The inputs: token streams as the lexer hands them over, written here as *)
(* sequences of lexeme texts.  `src` records how a stream was written so   *)
(* that properties can name what the stream declares.                      *)
(***************************************************************************)
CommentTexts == {"%a", "%b", "%c", "%d", "%z"}
NumberTexts == {"5"}

\* the (kind, text) pair the lexer gives for one lexeme
Lexeme(t) ==
  IF t \in {"classdef", "function", "end"} THEN <<"Keyword", t>>
  ELSE IF t \in {" ", "\n", "\t"} THEN <<"Text", t>>
  ELSE IF t \in {"(", ")", ",", "=", "{", "}", "."} THEN <<"Punctuation", t>>
  ELSE IF t \in {"<", "&"} THEN <<"Operator", t>>
  ELSE IF t \in CommentTexts THEN <<"Comment", t>>
  ELSE IF t \in NumberTexts THEN <<"Literal.Number", t>>
  ELSE <<"Name", t>>

Lex(ws) == [i \in 1..Len(ws) |-> Lexeme(ws[i])]

B(n) == [i \in 1..n |-> " "]

Widths == 0..MaxBlanks

NoSrc == [fam |-> "raw", w |-> <<>>, items |-> <<>>, names |-> <<>>, lines |-> <<>>]

Input(s, ws) == [src |-> s, tokens |-> Lex(ws)]

\* classdef Foo\n followed by something that is not an indented comment
SimpleTails == {<<>>, <<"end">>, <<"\n", "end">>, <<"%a", "\n", "end">>, <<" ", "end">>}

SimpleInputs ==
  {Input([NoSrc EXCEPT !.fam = IF n = "Foo" THEN "simple" ELSE "mismatch", !.w = <<a, b>>],
         <<"classdef">> \o B(a) \o <<n>> \o B(b) \o <<"\n">> \o t) :
     a \in Widths, b \in Widths, n \in {"Foo", "Bar"}, t \in SimpleTails}

\* one attribute of a parenthesized list: name, optional value, the blank
\* widths before the name, after the name, after '=' and after the value
Item(n, v, l) == [n |-> n, v |-> v, l |-> l]

RECURSIVE CellWords(_, _)
CellWords(l, sep) ==
  IF l = <<>> THEN <<>>
  ELSE IF Len(l) = 1 THEN <<l[1]>>
  ELSE <<l[1]>> \o sep \o CellWords(Tail(l), sep)

ItemWords(it, w) ==
  B(w[1]) \o <<it.n>> \o B(w[2]) \o
  (IF it.v # "" THEN <<"=">> \o B(w[3]) \o <<it.v>> \o B(w[4])
   ELSE IF it.l # <<>> THEN <<"=">> \o B(w[3]) \o <<"{">> \o CellWords(it.l, <<",", " ">>)
                            \o B(w[4]) \o <<"}">>
   ELSE <<>>)

RECURSIVE ItemsWords(_, _)
ItemsWords(its, ws) ==
  IF its = <<>> THEN <<>>
  ELSE ItemWords(Head(its), Head(ws)) \o
       (IF Len(its) > 1 THEN <<",">> ELSE <<>>) \o ItemsWords(Tail(its), Tail(ws))

AttrHeader(its, ws, b0, b1) ==
  <<"classdef">> \o B(b0) \o <<"(">> \o ItemsWords(its, ws) \o <<")">> \o B(b1)
  \o <<"Foo", "\n", "end">>

Same(w) == <<w, w, w, w>>

BoolItems1 == {<<Item(n, v, <<>>)>> : n \in {"Sealed", "Hidden"}, v \in {"true", "false"}}
BoolItems2 ==
  {<<Item(n[1], v1, <<>>), Item(n[2], v2, <<>>)>> :
     n \in {<<"Sealed", "Abstract">>, <<"Abstract", "ConstructOnLoad">>, <<"Sealed", "Sealed">>},
     v1 \in {"true", "false"}, v2 \in {"true", "false"}}

\* (C2) lists of recognized names, each with '= true' or '= false'
BoolAttrInputs ==
  {Input([NoSrc EXCEPT !.fam = "boolattrs", !.items = its, !.w = w],
         AttrHeader(its, <<w>>, 1, 1)) :
     its \in BoolItems1, w \in [1..4 -> Widths]}
  \cup
  {Input([NoSrc EXCEPT !.fam = "boolattrs", !.items = its, !.w = <<w, b0, b1>>],
         AttrHeader(its, <<Same(w), Same(w)>>, b0, b1)) :
     its \in BoolItems2, w \in Widths, b0 \in Widths, b1 \in Widths}

\* lists that mix bare names, boolean values and brace lists
MixedItems ==
  {<<Item("Sealed", "", <<>>)>>,
   <<Item("Sealed", "", <<>>), Item("Abstract", "true", <<>>)>>,
   <<Item("Hidden", "false", <<>>), Item("Sealed", "", <<>>)>>,
   <<Item("AllowedSubclasses", "", <<"A">>)>>,
   <<Item("AllowedSubclasses", "", <<"A", "B">>)>>,
   <<Item("InferiorClasses", "", <<"A", "B">>), Item("Sealed", "true", <<>>)>>}

MixedAttrInputs ==
  {Input([NoSrc EXCEPT !.fam = "mixedattrs", !.items = its, !.w = <<w>>],
         AttrHeader(its, <<Same(w), Same(w)>>, 1, 1)) :
     its \in MixedItems, w \in Widths}

(***************************************************************************)
(* Superclass lists: classdef Foo < n1 & n2 & ... \n end, with a blank run *)
(* after '<', and before and after every '&', and before the newline.      *)
(***************************************************************************)
RECURSIVE ChainWords(_, _)
ChainWords(ns, w) ==
  IF ns = <<>> THEN <<>>
  ELSE B(w[1]) \o <<Head(ns)>> \o B(w[2]) \o
       (IF Len(ns) > 1 THEN <<"&">> ELSE <<>>) \o
       ChainWords(Tail(ns), SubSeq(w, 3, Len(w)))

SuperHeader(ns, w) ==
  <<"classdef", " ", "Foo", " ", "<">> \o ChainWords(ns, w) \o <<"\n", "end">>

BaseChains == {<<"A">>, <<"A", "B">>, <<"A", "B", "C">>}

SuperInputs ==
  {Input([NoSrc EXCEPT !.fam = "supers", !.names = d.ns, !.w = d.w], SuperHeader(d.ns, d.w)) :
     d \in UNION {[ns : {ns}, w : [1..(2 * Len(ns)) -> Widths]] : ns \in BaseChains}}

(***************************************************************************)
(* Docstrings: classdef Foo\n followed by comment lines, each written with *)
(* its own indentation (none, blanks or a tab) and ended by a newline.     *)
(***************************************************************************)
DocText(i) == CASE i = 1 -> "%a" [] i = 2 -> "%b" [] i = 3 -> "%c" [] i = 4 -> "%d"
                [] OTHER -> "%z"

Indents == {B(n) : n \in Widths} \cup {<<"\t">>}

DocLines == UNION {[1..n -> Indents] : n \in 0..MaxDocLines}

RECURSIVE DocWords(_, _)
DocWords(ls, i) ==
  IF i > Len(ls) THEN <<>>
  ELSE ls[i] \o <<DocText(i), "\n">> \o DocWords(ls, i + 1)

DocInputs ==
  {Input([NoSrc EXCEPT !.fam = "doc", !.lines = ls, !.w = <<Len(t)>>],
         <<"classdef", " ", "Foo", "\n">> \o DocWords(ls, 1) \o t) :
     ls \in DocLines, t \in {<<>>, <<"end">>}}

(***************************************************************************)
(* Headers that leave the grammar, and units that are not classes.         *)
(***************************************************************************)
OddAttrLists ==
  {<<"Bogus">>, <<"Sealed", ",", " ", "Bogus">>,
   <<"Sealed", " ", "=", " ", "true", ",", " ", "Bogus", " ", "=", " ", "true">>,
   <<"Sealed", " ", "=", " ", "Abstract">>, <<"Sealed", "=", "Abstract">>,
   <<"Sealed", " ", "=", " ", "5">>, <<"Sealed", " ", "=", " ", "maybe">>,
   <<" ">>, <<>>, <<"Sealed", ",", " ">>, <<"Sealed", " ", "Abstract">>,
   <<"5">>, <<"Sealed", " ", "=", " ", "true", " ", "Hidden">>,
   <<"AllowedSubclasses", " ", "=", " ", "{", "A", ",", " ", "B", " ", " ", "}">>,
   <<"AllowedSubclasses", " ", "=", " ", "{", "A", " ", "B", " ", "}">>,
   <<"AllowedSubclasses", " ", "=", " ", "{", "}">>,
   <<"AllowedSubclasses", "=", "{", "A", ",", "B", "}", ",", "Sealed">>,
   <<"Sealed", " ", "=", " ", "{", "A", " ", "}">>}

OddSuperLists ==
  {<<"\n">>, <<" ", "\n">>, <<" ", "A", " ", "&", "&", " ", "B", "\n">>,
   <<" ", "A", "\t", "&", " ", "B", "\n">>, <<" ", "A", " ", "&", " ", "\n">>,
   <<"\t", "A", "\n">>, <<" ", "A", ".", "B", " ", "\n">>, <<" ", "A", " ", "B", "\n">>,
   <<" ", "&", " ", "A", "\n">>}

OddInputs ==
  {Input([NoSrc EXCEPT !.fam = "oddattrs"],
         <<"classdef", " ", "(">> \o a \o <<")", " ", "Foo", "\n", "end">>) :
     a \in OddAttrLists}
  \cup
  {Input([NoSrc EXCEPT !.fam = "oddsupers"],
         <<"classdef", " ", "Foo", " ", "<">> \o s \o <<" ", " ", "%a", "\n", "end">>) :
     s \in OddSuperLists}
  \cup
  {Input([NoSrc EXCEPT !.fam = "oddheader"], ws) :
     ws \in {<<"classdef", " ", "Foo", " ", "end">>,
             <<"classdef", " ", "Foo", " ", "%a", "\n">>,
             <<"classdef", "\t", "Foo", "\n", "end">>,
             <<"classdef", " ", "5", "\n", "end">>,
             <<"classdef", "\n", "Foo", "\n", "end">>}}

NonClassInputs ==
  {Input([NoSrc EXCEPT !.fam = "function"], ws) :
     ws \in {<<"function", " ", "Foo", "(", "x", ")", "\n", "end">>,
             <<"function", " ", "y", " ", "=", " ", "Foo", "\n">>,
             <<"function">>}}
  \cup
  {Input([NoSrc EXCEPT !.fam = "script"], ws) :
     ws \in {<<>>, <<"x", " ", "=", " ", "5", "\n">>, <<"%a", "\n", "classdef", " ", "Foo", "\n">>,
             <<"\n", "classdef", " ", "Foo", "\n">>, <<"end">>}}

\* attribute lists whose last name is not a recognized attribute: the
\* attributes written before it, the offending lexeme, and what follows it
Preceding ==
  {<<>>, <<Item("Sealed", "", <<>>)>>, <<Item("Sealed", "true", <<>>)>>,
   <<Item("Hidden", "false", <<>>), Item("Abstract", "", <<>>)>>,
   <<Item("AllowedSubclasses", "", <<"A", "B">>)>>}

UnknownHead(its, w) ==
  <<"classdef", " ", "(">> \o ItemsWords(its, <<Same(w), Same(w)>>)
  \o (IF its = <<>> THEN <<>> ELSE <<",">>) \o B(w)

UnknownInputs ==
  {Input([NoSrc EXCEPT !.fam = "unknownattr", !.items = its, !.names = <<bad>>,
                       !.w = <<Len(UnknownHead(its, w))>>],
         UnknownHead(its, w) \o <<bad>> \o rest) :
     its \in Preceding, w \in Widths, bad \in {"Bogus", "5", "Access"},
     rest \in {<<")", " ", "Foo", "\n", "end">>,
               <<" ", "=", " ", "true", ",", " ", "Sealed", ")", " ", "Foo", "\n", "end">>}}

\* attribute lists in which a value is neither true, false nor a brace list
BadValueInputs ==
  {Input([NoSrc EXCEPT !.fam = "badvalue", !.names = <<v>>, !.w = <<w>>],
         <<"classdef", " ", "(", "Sealed">> \o B(w) \o <<"=">> \o B(w) \o <<v>> \o B(w)
         \o <<")", " ", "Foo", "\n", "end">>) :
     v \in {"Abstract", "Hidden", "5", "maybe", "True"}, w \in Widths}

\* headers with or without an attribute list, the token written in the
\* class-name position after it, and what follows on the header line
NamedHeads ==
  {<<>>, <<"(", "Sealed", ")", " ">>, <<"(", "Sealed", " ", "=", " ", "true", ")", " ">>,
   <<"(", "AllowedSubclasses", " ", "=", " ", "{", "A", ",", " ", "B", " ", "}", ")", " ">>,
   <<"(", "AllowedSubclasses", " ", "=", " ", "{", "A", ",", " ", "B", "}", ")", " ">>,
   <<"(", "AllowedSubclasses", " ", "=", " ", "{", "A", ")", " ">>}

NamedInputs ==
  {Input([NoSrc EXCEPT !.fam = "named", !.names = <<n>>, !.w = <<Len(h) + 2>>],
         <<"classdef", " ">> \o h \o <<n>> \o rest) :
     h \in NamedHeads, n \in {"Foo", "Bar", "foo", "5"},
     rest \in {<<"\n", "end">>, <<" ", "<", " ", "A", "\n", "end">>,
               <<" ", "}", ")", " ", "Foo", "\n", "end">>,
               <<",", "}", ")", " ", "Foo", "\n", "end">>}}

\* an attribute whose value is a brace list of bare words: the words, the
\* separator written between them, the blanks after '{' and before '}'
CellHead(l, sep, o, c) ==
  <<"classdef", " ", "(", "AllowedSubclasses", " ", "=", " ", "{">> \o B(o)
  \o CellWords(l, sep) \o B(c) \o <<"}">>

CellInputs ==
  {Input([NoSrc EXCEPT !.fam = "cells", !.items = <<Item("AllowedSubclasses", "", l)>>,
                       !.w = <<Len(CellHead(l, sep, o, c)), o, c>>],
         CellHead(l, sep, o, c) \o <<")", " ", "Foo", "\n", "end">>) :
     l \in {<<"A">>, <<"A", "B">>, <<"A", "B", "C">>},
     sep \in {<<",">>, <<",", " ">>, <<" ">>, <<" ", ",", " ">>},
     o \in Widths, c \in Widths}

\* complete units, each also cut off after every one of its tokens
FullUnits ==
  {<<"classdef", " ", "(", "Sealed", " ", "=", " ", "true", ",", " ", "AllowedSubclasses",
     " ", "=", " ", "{", "A", ",", " ", "B", " ", "}", ")", " ", "Foo", " ", "<", " ", "A",
     " ", "&", " ", "B", "\n", " ", " ", "%a", "\n", " ", " ", "%b", "\n", "end">>,
   <<"classdef", " ", "(", "Sealed", ")", " ", "Foo", " ", "<", " ", "Bar", "\n", " ", " ",
     "%a", "\n", "end">>,
   <<"classdef", " ", "Foo", "\n", "\t", "%a", "\n", "%b", "\n">>}

CutInputs ==
  UNION {{Input([NoSrc EXCEPT !.fam = "cut", !.w = <<Len(u) - k>>], SubSeq(u, 1, k)) :
            k \in 0..Len(u)} : u \in FullUnits}

ClassInputs ==
  SimpleInputs \cup BoolAttrInputs \cup MixedAttrInputs \cup SuperInputs \cup DocInputs
  \cup OddInputs \cup CutInputs \cup UnknownInputs \cup BadValueInputs \cup NamedInputs
  \cup CellInputs

\* the units handed to the documenter's import_object
HostInputs ==
  NonClassInputs \cup OddInputs
  \cup {i \in SimpleInputs : i.src.w = <<1, 0>>}
  \cup {i \in CutInputs : i.src.w[1] \in {0, 1, 20}}

(***************************************************************************)
(* The object model.                                                       *)
(***************************************************************************)
None == [type |-> "None"]

\* the classes of the module and their method resolution order
Mro ==
  [MatObject |-> <<"MatObject">>,
   MatModule |-> <<"MatModule", "MatObject">>,
   MatFunction |-> <<"MatFunction", "MatObject">>,
   MatClass |-> <<"MatClass", "MatMixin", "MatObject">>]

\* super(t, self) is defined only for an instance of t
SuperOk(t, cls) == \E i \in DOMAIN Mro[cls] : Mro[cls][i] = t

MatModule(n, p) == [type |-> "MatModule", name |-> n, path |-> p]

MatFunction(n, p, tks) == [type |-> "MatFunction", name |-> n, path |-> p, tokens |-> tks]

\* the MatClass instance that __init__ has filled in
Self ==
  [type |-> "MatClass", name |-> name, path |-> path, tokens |-> tokens, attrs |-> attrs,
   bases |-> bases, docstring |-> docstring, properties |-> properties,
   methods |-> methods]

\* what a construction gave its caller: the instance, or the exception
Outcome ==
  IF pc = "done" THEN [status |-> "returned", err |-> "", errtok |-> "", self |-> Self]
  ELSE IF pc = "failed" THEN [status |-> "raised", err |-> err, errtok |-> errtok, self |-> None]
  ELSE [status |-> "none", err |-> "", errtok |-> "", self |-> None]

NoOutcome == [status |-> "none", err |-> "", errtok |-> "", self |-> None]

FsKinds == {"dir", "file", "walkdir", "walkfile", "none"}
ParentKinds == {"entity", "null", "raise"}

Init ==
  /\ \E i \in ClassInputs \cup NonClassInputs :
       /\ src = i.src
       /\ tokens = i.tokens
       /\ \/ /\ entry = "MatClass"
             /\ fs = "none"
             /\ parentfs = "null"
          \/ /\ entry = "import_object"
             /\ i \in HostInputs
             /\ fs \in FsKinds
             /\ parentfs \in ParentKinds
  /\ name = "Foo"
  /\ path = "pkg"
  /\ ipc = IF entry = "MatClass" THEN "direct" ELSE "call"
  /\ object = None
  /\ ret = ""
  /\ warned = FALSE
  /\ reread = FALSE
  /\ pc = IF entry = "MatClass" THEN "init" ELSE "idle"
  /\ idx = 0
  /\ attrs = EmptyDict
  /\ bases = <<>>
  /\ docstring = ""
  /\ properties = EmptyDict
  /\ methods = EmptyDict
  /\ cls_attr = ""
  /\ err = ""
  /\ errtok = ""
  /\ run = 1
  /\ first = NoOutcome

(***************************************************************************)
(* MatClass.__init__                                                       *)
(***************************************************************************)
Raise(e, t) == pc' = "failed" /\ err' = e /\ errtok' = t
IndexError == Raise("IndexError", "")
Goto(l) == pc' = l /\ UNCHANGED <<err, errtok>>

ErrNotAClass == "TypeError: Object is not a class. Expected a class."
ErrAttribute == "Exception: Unexpected class attribute"
ErrClassName == "Exception: Unexpected class name"
ErrSuper == "TypeError: super(type, obj): obj must be an instance or subtype of type"

\* a variant of MatClassInit in which bases is one list shared by every
\* instance (a class attribute) instead of a list made by __init__
MatClassInitSharedBases ==
  /\ pc = "init"
  /\ attrs' = EmptyDict
  /\ docstring' = ""
  /\ properties' = EmptyDict
  /\ methods' = EmptyDict
  /\ idx' = 0
  /\ Goto("classdef")
  /\ UNCHANGED <<inputVars, hostVars, bases, cls_attr, run, first>>

\* lines 279-298: the fields every construction starts from
MatClassInit ==
  /\ pc = "init"
  /\ attrs' = EmptyDict
  /\ bases' = <<>>
  /\ docstring' = ""
  /\ properties' = EmptyDict
  /\ methods' = EmptyDict
  /\ idx' = 0
  /\ Goto("classdef")
  /\ UNCHANGED <<inputVars, hostVars, cls_attr, run, first>>

\* lines 300-306: the classdef keyword and the blanks after it
CheckClassdef ==
  /\ pc = "classdef"
  /\ IF _eotk(tokens, idx) THEN IndexError /\ UNCHANGED idx
     ELSE IF _tk_ne(tokens, idx, TkClassdef) THEN Raise(ErrNotAClass, "") /\ UNCHANGED idx
     ELSE IF _blanks(tokens, idx + 1) = Raised THEN IndexError /\ idx' = idx + 1
     ELSE idx' = idx + 1 + _blanks(tokens, idx + 1) /\ Goto("attrs")
  /\ UNCHANGED <<inputVars, hostVars, selfVars, cls_attr, run, first>>

\* lines 309-310: an opening parenthesis starts the attribute list
AttrsOpen ==
  /\ pc = "attrs"
  /\ IF _eotk(tokens, idx) THEN IndexError /\ UNCHANGED idx
     ELSE IF _tk_eq(tokens, idx, TkLParen) THEN idx' = idx + 1 /\ Goto("attr_loop")
     ELSE UNCHANGED idx /\ Goto("classname")
  /\ UNCHANGED <<inputVars, hostVars, selfVars, cls_attr, run, first>>

\* lines 312 and 355: the closing parenthesis ends the attribute list
AttrLoop ==
  /\ pc = "attr_loop"
  /\ IF _eotk(tokens, idx) THEN IndexError /\ UNCHANGED idx
     ELSE IF _tk_ne(tokens, idx, TkRParen) THEN UNCHANGED idx /\ Goto("attr_name")
     ELSE idx' = idx + 1 /\ Goto("classname")
  /\ UNCHANGED <<inputVars, hostVars, selfVars, cls_attr, run, first>>

IsClsAttr(tok) == tok[1] = "Name" /\ tok[2] \in DOMAIN cls_attr_types

\* lines 313-321: the attribute's name
AttrName ==
  /\ pc = "attr_name"
  /\ LET b == _blanks(tokens, idx)
         i == idx + b
     IN IF b = Raised THEN IndexError /\ UNCHANGED <<idx, attrs, cls_attr>>
        ELSE /\ cls_attr' = Tok(tokens, i)[2]
             /\ IF IsClsAttr(Tok(tokens, i))
                THEN /\ attrs' = DictSet(attrs, Tok(tokens, i)[2], ListVal(<<>>))
                     /\ idx' = i + 1
                     /\ Goto("attr_sep")
                ELSE /\ Raise(ErrAttribute, Tok(tokens, i)[2])
                     /\ idx' = i
                     /\ UNCHANGED attrs
  /\ UNCHANGED <<inputVars, hostVars, bases, docstring, properties, methods, run, first>>

\* lines 322-330: a comma, or '=' and the blanks before the value
AttrSep ==
  /\ pc = "attr_sep"
  /\ LET b == _blanks(tokens, idx)
         i == idx + b
         b2 == _blanks(tokens, i + 1)
     IN IF b = Raised THEN IndexError /\ UNCHANGED idx
        ELSE IF _tk_eq(tokens, i, TkComma) THEN idx' = i + 1 /\ Goto("attr_loop")
        ELSE IF _tk_eq(tokens, i, TkEquals)
             THEN IF b2 = Raised THEN IndexError /\ idx' = i + 1
                  ELSE idx' = i + 1 + b2 /\ Goto("attr_value")
        ELSE idx' = i /\ Goto("attr_loop")
  /\ UNCHANGED <<inputVars, hostVars, selfVars, cls_attr, run, first>>

\* lines 332-338: a logical value, or the opening brace of a cell array
AttrValue ==
  /\ pc = "attr_value"
  /\ IF _eotk(tokens, idx) THEN IndexError /\ UNCHANGED <<idx, attrs>>
     ELSE IF Tok(tokens, idx)[1] = "Name" /\ Tok(tokens, idx)[2] \in {"true", "false"}
          THEN /\ attrs' = DictSet(attrs, cls_attr, StrVal(Tok(tokens, idx)[2]))
               /\ idx' = idx + 1
               /\ Goto("attr_next")
     ELSE IF _tk_eq(tokens, idx, TkLBrace)
          THEN idx' = idx + 1 /\ Goto("cell_loop") /\ UNCHANGED attrs
     ELSE Goto("attr_next") /\ UNCHANGED <<idx, attrs>>
  /\ UNCHANGED <<inputVars, hostVars, bases, docstring, properties, methods, cls_attr,
                 run, first>>

\* lines 339 and 350: the closing brace ends the cell array
CellLoop ==
  /\ pc = "cell_loop"
  /\ IF _eotk(tokens, idx) THEN IndexError /\ UNCHANGED idx
     ELSE IF _tk_ne(tokens, idx, TkRBrace) THEN UNCHANGED idx /\ Goto("cell_value")
     ELSE idx' = idx + 1 /\ Goto("attr_next")
  /\ UNCHANGED <<inputVars, hostVars, selfVars, cls_attr, run, first>>

\* lines 343-346: where the value string stops, Len(toks) when no blank or
\* comma follows
RECURSIVE ValueEnd(_, _)
ValueEnd(toks, i) ==
  IF i >= Len(toks) THEN Len(toks)
  ELSE IF _tk_ne(toks, i, TkBlank) /\ _tk_ne(toks, i, TkComma) THEN ValueEnd(toks, i + 1)
  ELSE i

\* the texts of tokens i .. j-1, concatenated
RECURSIVE Concat(_, _, _)
Concat(toks, i, j) == IF i >= j THEN "" ELSE Tok(toks, i)[2] \o Concat(toks, i + 1, j)

\* lines 340-349: one value of the cell array
CellValue ==
  /\ pc = "cell_value"
  /\ LET b == _blanks(tokens, idx)
         i == idx + b
         j == ValueEnd(tokens, i)
         attr_val == Concat(tokens, i, j)
     IN IF b = Raised THEN IndexError /\ UNCHANGED <<idx, attrs>>
        ELSE IF j >= Len(tokens) THEN IndexError /\ idx' = j /\ UNCHANGED attrs
        ELSE /\ idx' = j + 1
             /\ attrs' = IF attr_val # ""
                         THEN DictSet(attrs, cls_attr,
                                      ListVal(Append(attrs[cls_attr].list, attr_val)))
                         ELSE attrs
             /\ Goto("cell_loop")
  /\ UNCHANGED <<inputVars, hostVars, bases, docstring, properties, methods, cls_attr,
                 run, first>>

\* lines 351-354: the blanks and the comma after a value
AttrNext ==
  /\ pc = "attr_next"
  /\ LET b == _blanks(tokens, idx)
         i == idx + b
     IN IF b = Raised THEN IndexError /\ UNCHANGED idx
        ELSE IF _tk_eq(tokens, i, TkComma) THEN idx' = i + 1 /\ Goto("attr_loop")
        ELSE idx' = i /\ Goto("attr_loop")
  /\ UNCHANGED <<inputVars, hostVars, selfVars, cls_attr, run, first>>

\* lines 358-363: the class name and the blanks after it
ClassName ==
  /\ pc = "classname"
  /\ LET b == _blanks(tokens, idx)
         i == idx + b
         b2 == _blanks(tokens, i + 1)
     IN IF b = Raised THEN IndexError /\ UNCHANGED idx
        ELSE IF _tk_ne(tokens, i, TkName(name))
             THEN Raise(ErrClassName, Tok(tokens, i)[2]) /\ idx' = i
        ELSE IF b2 = Raised THEN IndexError /\ idx' = i + 1
        ELSE idx' = i + 1 + b2 /\ Goto("supers")
  /\ UNCHANGED <<inputVars, hostVars, selfVars, cls_attr, run, first>>

\* lines 366-367 and 387-388: '<' starts the superclasses, a newline ends
\* the signature
Supers ==
  /\ pc = "supers"
  /\ IF _eotk(tokens, idx) THEN IndexError /\ UNCHANGED idx
     ELSE IF _tk_eq(tokens, idx, TkLess) THEN idx' = idx + 1 /\ Goto("super_loop")
     ELSE IF _tk_eq(tokens, idx, TkNewline) THEN idx' = idx + 1 /\ Goto("doc")
     ELSE UNCHANGED idx /\ Goto("doc")
  /\ UNCHANGED <<inputVars, hostVars, selfVars, cls_attr, run, first>>

\* lines 369 and 385: the newline ends the superclasses
SuperLoop ==
  /\ pc = "super_loop"
  /\ IF _eotk(tokens, idx) THEN IndexError /\ UNCHANGED idx
     ELSE IF _tk_ne(tokens, idx, TkNewline) THEN UNCHANGED idx /\ Goto("super_base")
     ELSE idx' = idx + 1 /\ Goto("doc")
  /\ UNCHANGED <<inputVars, hostVars, selfVars, cls_attr, run, first>>

\* lines 373-375: where the base name stops (the first token at which
\* _whitespace counts something), Raised when _whitespace raises
RECURSIVE BaseEnd(_, _)
BaseEnd(toks, i) ==
  IF _whitespace(toks, i) = Raised THEN Raised
  ELSE IF _whitespace(toks, i) = 0 THEN BaseEnd(toks, i + 1)
  ELSE i

\* a variant of SuperBase that does not step over the whitespace token that
\* ended the base name (lines 377-378 left out)
SuperBaseNoStep ==
  /\ pc = "super_base"
  /\ LET b == _blanks(tokens, idx)
         i == idx + b
         j == BaseEnd(tokens, i)
         base_name == Concat(tokens, i, j)
         b2 == _blanks(tokens, j)
         i3 == j + b2
     IN IF b = Raised THEN IndexError /\ UNCHANGED <<idx, bases>>
        ELSE IF j = Raised THEN IndexError /\ UNCHANGED <<idx, bases>>
        ELSE /\ bases' = IF base_name # "" THEN Append(bases, base_name) ELSE bases
             /\ IF b2 = Raised THEN IndexError /\ idx' = j
                ELSE IF _tk_eq(tokens, i3, TkAmp) THEN idx' = i3 + 1 /\ Goto("super_loop")
                ELSE idx' = i3 /\ Goto("super_loop")
  /\ UNCHANGED <<inputVars, hostVars, attrs, docstring, properties, methods, cls_attr,
                 run, first>>

\* a variant of SuperBase that appends the base name without testing that
\* it is not empty (line 379 left out)
SuperBaseAlwaysAppends ==
  /\ pc = "super_base"
  /\ LET b == _blanks(tokens, idx)
         i == idx + b
         j == BaseEnd(tokens, i)
         base_name == Concat(tokens, i, j)
         j2 == IF _tk_ne(tokens, j, TkNewline) THEN j + 1 ELSE j
         b2 == _blanks(tokens, j2)
         i3 == j2 + b2
     IN IF b = Raised THEN IndexError /\ UNCHANGED <<idx, bases>>
        ELSE IF j = Raised THEN IndexError /\ UNCHANGED <<idx, bases>>
        ELSE /\ bases' = Append(bases, base_name)
             /\ IF b2 = Raised THEN IndexError /\ idx' = j2
                ELSE IF _tk_eq(tokens, i3, TkAmp) THEN idx' = i3 + 1 /\ Goto("super_loop")
                ELSE idx' = i3 /\ Goto("super_loop")
  /\ UNCHANGED <<inputVars, hostVars, attrs, docstring, properties, methods, cls_attr,
                 run, first>>

\* lines 370-384: one superclass
SuperBase ==
  /\ pc = "super_base"
  /\ LET b == _blanks(tokens, idx)
         i == idx + b
         j == BaseEnd(tokens, i)
         base_name == Concat(tokens, i, j)
         j2 == IF _tk_ne(tokens, j, TkNewline) THEN j + 1 ELSE j
         b2 == _blanks(tokens, j2)
         i3 == j2 + b2
     IN IF b = Raised THEN IndexError /\ UNCHANGED <<idx, bases>>
        ELSE IF j = Raised THEN IndexError /\ UNCHANGED <<idx, bases>>
        ELSE /\ bases' = IF base_name # "" THEN Append(bases, base_name) ELSE bases
             /\ IF b2 = Raised THEN IndexError /\ idx' = j2
                ELSE IF _tk_eq(tokens, i3, TkAmp) THEN idx' = i3 + 1 /\ Goto("super_loop")
                ELSE idx' = i3 /\ Goto("super_loop")
  /\ UNCHANGED <<inputVars, hostVars, attrs, docstring, properties, methods, cls_attr,
                 run, first>>

\* lines 392-394: the indentation of the line after the signature
DocIndent ==
  /\ pc = "doc"
  /\ LET indent == _indent(tokens, idx)
     IN IF indent = Raised THEN IndexError /\ UNCHANGED idx
        ELSE IF indent # 0 THEN idx' = idx + indent /\ Goto("doc_loop")
        ELSE UNCHANGED idx /\ Goto("done")
  /\ UNCHANGED <<inputVars, hostVars, selfVars, cls_attr, run, first>>

\* lines 396-406: one comment of the docstring, its newline and the
\* indentation of the next line; anything but a comment ends __init__
DocLoop ==
  /\ pc = "doc_loop"
  /\ LET i1 == idx + 1
         nl == _tk_eq(tokens, i1, TkNewline)
         i2 == IF nl THEN i1 + 1 ELSE i1
         d1 == docstring \o Tok(tokens, idx)[2]
         d2 == IF nl THEN d1 \o Tok(tokens, i1)[2] ELSE d1
         indent == _indent(tokens, i2)
     IN IF _eotk(tokens, idx) THEN IndexError /\ UNCHANGED <<idx, docstring>>
        ELSE IF Tok(tokens, idx)[1] # "Comment" THEN Goto("done") /\ UNCHANGED <<idx, docstring>>
        ELSE IF _eotk(tokens, i1) THEN IndexError /\ idx' = i1 /\ docstring' = d1
        ELSE IF indent = Raised THEN IndexError /\ idx' = i2 /\ docstring' = d2
        ELSE idx' = i2 + indent /\ docstring' = d2 /\ Goto("doc_loop")
  /\ UNCHANGED <<inputVars, hostVars, attrs, bases, properties, methods, cls_attr,
                 run, first>>

(***************************************************************************)
(* MatlabDocumenter.import_object and the resolver it calls.               *)
(***************************************************************************)
parserVars == <<pc, idx, attrs, bases, docstring, properties, methods, cls_attr>>

\* lines 102-137 (called on line 471): a folder, an mfile, or nothing
Matlabify ==
  /\ ipc = "call"
  /\ IF fs = "dir" THEN object' = MatModule(name, path) /\ ipc' = "parent"
     ELSE IF fs = "file" THEN UNCHANGED object /\ ipc' = "parse_mfile"
     ELSE IF fs = "walkdir" THEN object' = MatModule(name, "./" \o path) /\ ipc' = "parent"
     ELSE IF fs = "walkfile" THEN UNCHANGED object /\ ipc' = "parse_mfile"
     ELSE object' = None /\ ipc' = "parent"
  /\ UNCHANGED <<inputVars, ret, warned, reread, parserVars, err, errtok, run, first>>

\* lines 92-100: dispatch on the first token
ParseMfile ==
  /\ ipc = "parse_mfile"
  /\ IF _eotk(tokens, 0)
     THEN err' = "IndexError" /\ ipc' = "except" /\ UNCHANGED <<object, pc>>
     ELSE IF Tok(tokens, 0) = TkFunction
          THEN ipc' = "MatFunction" /\ UNCHANGED <<object, pc, err>>
     ELSE IF Tok(tokens, 0) = TkClassdef
          THEN ipc' = "MatClass" /\ pc' = "init" /\ UNCHANGED <<object, err>>
     ELSE object' = None /\ ipc' = "parent" /\ UNCHANGED <<pc, err>>
  /\ UNCHANGED <<inputVars, ret, warned, reread, idx, attrs, bases, docstring, properties,
                 methods, cls_attr, errtok, run, first>>

\* lines 248-253: MatFunction.__init__, which starts with super(MatClass, self)
MatFunctionInit ==
  /\ ipc = "MatFunction"
  /\ IF SuperOk("MatClass", "MatFunction")
     THEN object' = MatFunction(name, path, tokens) /\ ipc' = "parent" /\ UNCHANGED err
     ELSE err' = ErrSuper /\ ipc' = "except" /\ UNCHANGED object
  /\ UNCHANGED <<inputVars, ret, warned, reread, parserVars, errtok, run, first>>

\* line 97: MatClass(name, path, tks) returned
MatClassReturn ==
  /\ ipc = "MatClass"
  /\ pc = "done"
  /\ object' = Self
  /\ ipc' = "parent"
  /\ UNCHANGED <<inputVars, ret, warned, reread, parserVars, err, errtok, run, first>>

\* line 97: MatClass(name, path, tks) raised
MatClassRaise ==
  /\ ipc = "MatClass"
  /\ pc = "failed"
  /\ ipc' = "except"
  /\ UNCHANGED <<inputVars, object, ret, warned, reread, parserVars, err, errtok, run, first>>

\* line 474: the parent is resolved the same way, from another path
ResolveParent ==
  /\ ipc = "parent"
  /\ IF parentfs = "raise" THEN err' = "Exception" /\ ipc' = "except"
     ELSE UNCHANGED err /\ ipc' = "result"
  /\ UNCHANGED <<inputVars, object, ret, warned, reread, parserVars, errtok, run, first>>

\* lines 475-478
ImportReturn ==
  /\ ipc = "result"
  /\ ret' = IF object # None THEN "True" ELSE "False"
  /\ ipc' = "returned"
  /\ UNCHANGED <<inputVars, object, warned, reread, parserVars, err, errtok, run, first>>

\* a variant of ImportExcept that catches only SyntaxError, ImportError and
\* AttributeError, as the comment on lines 479-480 says it once did
ImportExceptNarrow ==
  /\ ipc = "except"
  /\ err \in {"SyntaxError", "ImportError", "AttributeError"}
  /\ warned' = TRUE
  /\ reread' = TRUE
  /\ ret' = "False"
  /\ ipc' = "returned"
  /\ UNCHANGED <<inputVars, object, parserVars, err, errtok, run, first>>

\* lines 481-493: except Exception
ImportExcept ==
  /\ ipc = "except"
  /\ warned' = TRUE
  /\ reread' = TRUE
  /\ ret' = "False"
  /\ ipc' = "returned"
  /\ UNCHANGED <<inputVars, object, parserVars, err, errtok, run, first>>

Next ==
  \/ MatClassInit \/ CheckClassdef \/ AttrsOpen \/ AttrLoop \/ AttrName \/ AttrSep
  \/ AttrValue \/ CellLoop \/ CellValue \/ AttrNext \/ ClassName \/ Supers
  \/ SuperLoop \/ SuperBase \/ DocIndent \/ DocLoop
  \/ Matlabify \/ ParseMfile \/ MatFunctionInit \/ MatClassReturn \/ MatClassRaise
  \/ ResolveParent \/ ImportReturn \/ ImportExcept

Spec == Init /\ [][Next]_vars

(***************************************************************************)
(* A second construction from the same token stream and name, once the     *)
(* first one has returned or raised.  It is a new instance and a new call  *)
(* frame; what it can share with the first is the token list and whatever  *)
(* MatClassInit does not assign.                                           *)
(***************************************************************************)
Reconstruct ==
  /\ ipc = "direct"
  /\ run = 1
  /\ pc \in {"done", "failed"}
  /\ first' = Outcome
  /\ run' = 2
  /\ pc' = "init"
  /\ err' = ""
  /\ errtok' = ""
  /\ cls_attr' = ""
  /\ UNCHANGED <<inputVars, hostVars, idx, selfVars>>

InitTwice == Init /\ entry = "MatClass"

NextTwice ==
  \/ MatClassInit \/ CheckClassdef \/ AttrsOpen \/ AttrLoop \/ AttrName \/ AttrSep
  \/ AttrValue \/ CellLoop \/ CellValue \/ AttrNext \/ ClassName \/ Supers
  \/ SuperLoop \/ SuperBase \/ DocIndent \/ DocLoop \/ Reconstruct

SpecTwice == InitTwice /\ [][NextTwice]_vars


(***************************************************************************)
(* Properties.                                                             *)
(***************************************************************************)
Finished == pc \in {"done", "failed"}

\* C1: a header classdef <blanks> Foo \n with no attribute list, no
\* superclass list and no indented comment after it (the stream may end
\* right after the newline) constructs a Class with empty attributes, empty
\* bases and an empty docstring.
C1_SimpleHeader ==
  (src.fam = "simple" /\ src.w[1] >= 1 /\ src.w[2] = 0 /\ Finished)
    => (pc = "done" /\ attrs = EmptyDict /\ bases = <<>> /\ docstring = "")

\* the mapping an attribute list declares: each name with the value given
\* to it last
LastItem(its, n) ==
  its[CHOOSE i \in 1..Len(its) : its[i].n = n /\ \A j \in (i + 1)..Len(its) : its[j].n # n]

ExpectedAttrs(its) ==
  [n \in {its[i].n : i \in 1..Len(its)} |->
     IF LastItem(its, n).v # "" THEN StrVal(LastItem(its, n).v)
     ELSE ListVal(LastItem(its, n).l)]

\* C2: for an attribute list of recognized names, each given '= true' or
\* '= false', construction returns a Class whose attributes have exactly
\* those names as keys and exactly those values, whatever the number of
\* blanks around the names, the '=' signs, the commas and the parentheses.
C2_BoolAttrs ==
  (src.fam = "boolattrs" /\ Finished) => (pc = "done" /\ attrs = ExpectedAttrs(src.items))

C2_Witness ==
  /\ src.fam = "boolattrs"
  /\ pc = "done"
  /\ Len(src.items) = 2
  /\ src.w = <<MaxBlanks, 0, MaxBlanks>>
  /\ DOMAIN attrs = {"Sealed", "Abstract"}
  /\ attrs["Sealed"] = StrVal("true")
  /\ attrs["Abstract"] = StrVal("false")

\* C3: for the superclass list A & B & C after '<', ended by a newline,
\* bases is <<A, B, C>> in declaration order for every width of the blank
\* runs around the '&' operators, width zero included.
C3_BasesInOrder ==
  (src.fam = "supers" /\ Len(src.names) = 3 /\ Finished)
    => (pc = "done" /\ bases = src.names)

\* the text of the comment lines up to the first one that is not indented,
\* each followed by its newline
RECURSIVE ExpectedDoc(_, _)
ExpectedDoc(ls, i) ==
  IF i > Len(ls) \/ ls[i] = <<>> THEN ""
  ELSE DocText(i) \o "\n" \o ExpectedDoc(ls, i + 1)

\* C4: when two or more contiguous indented comment lines follow the
\* header, the docstring of the constructed Class is the text of the
\* indented comment lines, each followed by its newline, up to the first
\* line that is not indented: a comment line with no indentation that
\* follows them is not added.
C4_DocstringStops ==
  (src.fam = "doc" /\ Len(src.lines) >= 2 /\ src.lines[1] # <<>> /\ src.lines[2] # <<>>
   /\ pc = "done")
    => docstring = ExpectedDoc(src.lines, 1)

\* C5: when an attribute-name position of the attribute list holds a token
\* that is not a recognized attribute name, construction fails with the
\* unknown-attribute error naming that token and the cursor stands on it,
\* whatever attributes were written before it.
C5_UnknownAttribute ==
  (src.fam = "unknownattr" /\ Finished)
    => (pc = "failed" /\ err = ErrAttribute /\ errtok = src.names[1] /\ idx = src.w[1])

\* C6: when the first token of the unit is (Keyword, 'function'),
\* parse_mfile returns a Function with the requested name and the given
\* path and tokens, and no error is raised.
C6_FunctionDispatch ==
  (entry = "import_object" /\ fs \in {"file", "walkfile"} /\ src.fam = "function"
   /\ ipc \in {"parent", "except", "result", "returned"})
    => (err \in {"", "Exception"} /\ ipc # "except" /\ object = MatFunction(name, path, tokens))

\* C7: no phase of the construction reads a token at an index at or past
\* the end of the stream (the read that raises IndexError).
C7_NoReadPastEnd == ~(pc = "failed" /\ err = "IndexError")

\* C8: an attribute value that is neither true, false nor an opening
\* brace makes construction fail: no Class is returned.
C8_BadValueFails == src.fam = "badvalue" => pc # "done"

\* C9: a second construction from the same token stream and name ends as
\* the first one did: the same error, or a Class equal to the first in
\* name, path, tokens, attrs, bases, docstring, properties and methods.
C9_SameOutcome == (run = 2 /\ Finished) => Outcome = first

C9_Witness ==
  /\ run = 2
  /\ pc = "done"
  /\ first.status = "returned"
  /\ Len(bases) = 2
  /\ DOMAIN attrs # {}
  /\ docstring # ""

\* C10: import_object returns; when an error was raised while resolving
\* or parsing it has warned, noted a reread and returned False, and it
\* returns True only when no error was raised and the resolver gave an
\* entity.
C10_ErrorsCaught ==
  entry = "import_object" =>
    /\ (~ENABLED Next) => ipc = "returned"
    /\ ipc = "returned" =>
         /\ err # "" => (ret = "False" /\ warned /\ reread)
         /\ ret = "True" <=> (err = "" /\ object # None)

C10_Witness ==
  /\ ipc = "returned"
  /\ err = ErrAttribute
  /\ ret = "False"
  /\ warned
  /\ reread

\* the first index at or after i that holds `token`, Len(toks) when none does
RECURSIVE FirstAt(_, _, _)
FirstAt(toks, i, token) ==
  IF i >= Len(toks) THEN Len(toks)
  ELSE IF Tok(toks, i) = token THEN i
  ELSE FirstAt(toks, i + 1, token)

\* the index of the header's class-name token: the first token that is not
\* a blank after the keyword and, when one is written, after the
\* parenthesized attribute list; Len(toks) when the header has none
HeaderNameIndex(toks) ==
  LET j == ScanEnd(toks, 1, {" "})
      k == FirstAt(toks, j + 1, TkRParen)
  IN IF j < Len(toks) /\ Tok(toks, j) = TkLParen
     THEN IF k >= Len(toks) THEN Len(toks) ELSE ScanEnd(toks, k + 1, {" "})
     ELSE j

\* C11: every Class that construction returns has the classdef keyword as
\* tokens[0] and, as the header's class-name token, a Name token whose text
\* is the Class's name.
C11_HeaderConditions ==
  (pc = "done" \/ object.type = "MatClass")
    => /\ Len(tokens) > 0
       /\ tokens[1] = TkClassdef
       /\ HeaderNameIndex(tokens) < Len(tokens)
       /\ Tok(tokens, HeaderNameIndex(tokens)) = TkName(name)

\* C12: bases holds no empty string, in every state of the construction
\* and in every Class handed to the caller.
C12_NoEmptyBase ==
  /\ \A i \in 1..Len(bases) : bases[i] # ""
  /\ object.type = "MatClass" => \A i \in 1..Len(object.bases) : object.bases[i] # ""

\* a superclass list that starts with a tab: the first pass of the loop
\* gathers an empty name, and only 'A' ends in bases
C12_Witness ==
  /\ pc = "done"
  /\ src.fam = "oddsupers"
  /\ Tok(tokens, 4) = TkLess
  /\ Tok(tokens, 5) = <<"Text", "\t">>
  /\ bases = <<"A">>

\* C13: for an attribute whose value is a brace list of bare words
\* separated by commas and/or blanks, the value in the constructed Class is
\* the list of those words in order and parsing resumes at the token after
\* the closing brace, whether or not a blank stands before the closing
\* brace.
C13_CellValues ==
  src.fam = "cells" =>
    /\ Finished => (pc = "done" /\ attrs = ExpectedAttrs(src.items))
    /\ pc = "attr_next" => (idx = src.w[1] /\ attrs = ExpectedAttrs(src.items))

\* one step of the construction keeps the cursor within the stream, never
\* moves it back, and each pass of the attribute-list loop (AttrName), of
\* the brace-list loop (CellValue), of the superclass loop (SuperBase) and
\* of the docstring loop (DocLoop on a comment) raises or moves it forward
CursorAdvances ==
  /\ idx' >= idx
  /\ idx' <= Len(tokens)
  /\ (pc \in {"attr_name", "cell_value", "super_base"} \/ (pc = "doc_loop" /\ pc' # "done"))
       => (pc' = "failed" \/ idx' > idx)

\* the steps of the construction, each placed after the steps that can follow
\* it without a move of the cursor
StepOrder ==
  <<"doc_loop", "doc", "super_base", "super_loop", "supers", "classname", "attr_name",
    "attr_loop", "attr_next", "cell_value", "cell_loop", "attr_value", "attr_sep",
    "attrs", "classdef", "init">>

Constructing == \E k \in 1..Len(StepOrder) : StepOrder[k] = pc

\* what is left to do: the tokens after the cursor first, then the steps
\* that remain before the cursor has to move
Remaining ==
  IF Constructing
  THEN (Len(tokens) - idx) * (Len(StepOrder) + 1)
       + (CHOOSE k \in 1..Len(StepOrder) : StepOrder[k] = pc)
  ELSE 0

\* C14: the construction of a Class from a finite token stream ends, by
\* returning or by raising: the cursor never moves back and stays within the
\* stream, every pass of a loop raises or advances the cursor, and every step
\* leaves less to do than the step before, of a quantity that stays positive
\* until the construction has ended.
C14_Terminates ==
  /\ [][Constructing => (CursorAdvances /\ Remaining' < Remaining)]_vars
  /\ [](Constructing => Remaining > 0)

\* the construction returned after passes of all four loops
C14_Witness ==
  /\ pc = "done"
  /\ "AllowedSubclasses" \in DOMAIN attrs
  /\ attrs["AllowedSubclasses"] = ListVal(<<"A", "B">>)
  /\ "Sealed" \in DOMAIN attrs
  /\ bases = <<"A", "B">>
  /\ docstring = "%a\n%b\n"
  /\ idx = Len(tokens) - 1

====
